---- MODULE Spec2Model ----
(***************************************************************************)
(* A model of acp (aws-copy-pt): the local credential store (acp/db.py),   *)
(* the Globus token storage and login check (acp/globus.py).               *)
(*                                                                         *)
(* The SQLite file is modelled by what the statements of the code persist: *)
(* the application_id and user_version header fields, the set of tables,   *)
(* and the rows of cred_globus.  The connections are opened with the       *)
(* sqlite3 module's default transaction control, under which PRAGMA and    *)
(* CREATE TABLE statements run outside any transaction and are persisted   *)
(* statement by statement, while an explicit BEGIN opens a transaction     *)
(* that lasts until commit, rollback or the end of the connection.         *)
(***************************************************************************)
EXTENDS Integers, Sequences, FiniteSets, TLC

VARIABLES
    env,            \* which of ACP_DB_HOME, XDG_DATA_HOME, HOME are set
    files,          \* the file system: path -> file state
    pc,             \* position of the current db.open() / db._upgrade() call
    argPath,        \* open(): the `path` argument as given ("None" if omitted)
    new_db,         \* open(): the local new_db
    conn,           \* open(): the file the connection is attached to, or "none"
    user_version,   \* _upgrade(): the user_version parameter
    caller,         \* who called _upgrade: "open" or "direct"
    err,            \* the exception the last call raised, or "none"
    snap,           \* the file system as it was when the current open() began
    lastMig,        \* the last completed _upgrade call
    prevMig,        \* the completed _upgrade call before it, on the same handle
    applied,        \* path -> how many times the 0 -> 1 step completed on it
    stepPre,        \* the connected file as it was when _upgrade was entered
    committed,      \* cred_globus: the rows the file holds
    working,        \* cred_globus: the rows TokenStorage's connection sees
    inTxn,          \* TokenStorage's connection has a transaction open
    lastOp,         \* the last TokenStorage call: what, with what, how it ended
    readResult,     \* what the last read_tokens() returned
    grants,         \* the scopes the stored Globus tokens were granted for
    tokenState,     \* the stored tokens: "valid" or "expired"
    nlSeen,         \* what the last needs_login() got from the client
    nlCalled,       \* needs_login() has been called
    nlResult,       \* what the last needs_login() returned
    nlPrev,         \* what the needs_login() before it returned, or "none"
    rpc,            \* position of the current run of main() / _main()
    is_interactive, \* _main(): sys.stdout.isatty()
    is_ssh,         \* _main(): SSH_TTY is in the environment
    has_display,    \* _main(): DISPLAY is in the environment
    handles,        \* the handles to the store file that are open
    released,       \* the handles the run closed by a close() call of its own
    events,         \* the calls the run has made so far, in order
    exitCode,       \* the exit code of the run, -1 while it runs
    exitCause,      \* why the run ended, "none" while it runs
    collections_list, \* _main(): len(collections_list)
    collection,     \* _main(): the local collection
    prompts,        \* how many responses the selection loop has read
    response        \* the last response the selection loop read

openVars == <<pc, argPath, new_db, conn, user_version, caller, err, snap,
              lastMig, prevMig, applied, stepPre>>

storeVars == <<env, files, openVars>>

tokenVars == <<committed, working, inTxn, lastOp, readResult>>

loginVars == <<grants, tokenState, nlSeen, nlCalled, nlResult, nlPrev>>

flagVars == <<is_interactive, is_ssh, has_display>>

selVars == <<collections_list, collection, prompts, response>>

runVars == <<rpc, flagVars, handles, released, events, exitCode, exitCause,
             selVars>>

vars == <<storeVars, tokenVars, loginVars, runVars>>

----------------------------------------------------------------------------
(* Bounds *)

\* Highest user_version considered: in the header of a file another
\* application made, and as the argument of a direct _upgrade call.
MaxVersion == 2

\* Most endpoints the recently-used search returns to find_collections().
MaxRecent == 2

\* The selection loop's responses are counted up to this many.
MaxPrompts == 2

----------------------------------------------------------------------------
(* acp/db.py *)

APPLICATION_ID == 1633906688

\* application_id values of SQLite files that are not ours (0 is SQLite's
\* default for a database that never set one).
ForeignIds == {0, 7}

CredTables == {"cred_aws", "cred_globus"}

\* "D" is the file db_path() resolves to in this environment, "P" is some
\* other path a caller may hand to open().
Paths == {"D", "P"}

NoFile == [exists |-> FALSE, appId |-> 0, ver |-> 0, tables |-> {}]

\* What sqlite3.connect() leaves at a path that held no file: an empty
\* database, application_id 0, user_version 0, no tables.
EmptyDb == [exists |-> TRUE, appId |-> 0, ver |-> 0, tables |-> {}]

\* db_path(): the directory chosen, or the exception raised on the way.
\* os.environ is a mapping; the first two branches call it.
DbPath(e) ==
    IF e.ACP THEN [err |-> "TypeError", dir |-> "none"]
    ELSE IF e.XDG THEN [err |-> "TypeError", dir |-> "none"]
    ELSE IF e.HOME THEN [err |-> "none", dir |-> "$HOME/.local/share/acp"]
    ELSE [err |-> "none", dir |-> "~/.local/share/acp"]

NoMig == [valid |-> FALSE, v |-> 0, err |-> "none", after |-> NoFile]

NoStep == [valid |-> FALSE, file |-> NoFile]

Envs == [ACP : BOOLEAN, XDG : BOOLEAN, HOME : BOOLEAN]

\* Files the program may find at a path when it first runs: nothing, or a
\* SQLite file of another application.
ForeignFiles ==
    [exists : {TRUE}, appId : ForeignIds, ver : {0, MaxVersion},
     tables : {{}, {"other"}}]

InitStore ==
    /\ env \in Envs
    /\ files \in [Paths -> {NoFile} \cup ForeignFiles]
    /\ pc = "idle"
    /\ argPath = "None"
    /\ new_db = FALSE
    /\ conn = "none"
    /\ user_version = 0
    /\ caller = "open"
    /\ err = "none"
    /\ snap = files
    /\ lastMig = NoMig
    /\ prevMig = NoMig
    /\ applied = [p \in Paths |-> 0]
    /\ stepPre = NoStep

\* open(), lines 119-130: resolve the path, test it, connect.
OpenBegin(a) ==
    /\ UNCHANGED <<runVars, tokenVars, loginVars>>
    /\ stepPre' = NoStep
    /\ pc \in {"idle", "returned", "raised", "crashed"}
    /\ argPath' = a
    /\ caller' = "open"
    /\ snap' = files
    /\ lastMig' = NoMig
    /\ prevMig' = NoMig
    /\ user_version' = 0
    /\ IF a = "None" /\ DbPath(env).err # "none"
       THEN \* line 121 raises before new_db is set
            /\ pc' = "raised"
            /\ err' = DbPath(env).err
            /\ new_db' = FALSE
            /\ conn' = "none"
            /\ UNCHANGED files
       ELSE LET path == IF a = "None" THEN "D" ELSE a
                nd == ~files[path].exists
            IN  /\ new_db' = nd
                /\ IF DbPath(env).err # "none"
                   THEN \* line 130 raises
                        /\ pc' = "raised"
                        /\ err' = DbPath(env).err
                        /\ conn' = "none"
                        /\ UNCHANGED files
                   ELSE \* line 130: the connection goes to db_path()
                        /\ pc' = "connected"
                        /\ err' = "none"
                        /\ conn' = "D"
                        /\ files' = [files EXCEPT !["D"] =
                                        IF @.exists THEN @ ELSE EmptyDb]
    /\ UNCHANGED <<env, applied>>

\* open(), line 135
OpenSetAppId ==
    /\ UNCHANGED <<runVars, tokenVars, loginVars, stepPre>>
    /\ pc = "connected"
    /\ new_db
    /\ files' = [files EXCEPT ![conn].appId = APPLICATION_ID]
    /\ pc' = "id_set"
    /\ UNCHANGED <<env, argPath, new_db, conn, user_version, caller, err,
                   snap, lastMig, prevMig, applied>>

\* open(), line 136
OpenSetVersion ==
    /\ UNCHANGED <<runVars, tokenVars, loginVars, stepPre>>
    /\ pc = "id_set"
    /\ files' = [files EXCEPT ![conn].ver = 0]
    /\ pc' = "checked"
    /\ UNCHANGED <<env, argPath, new_db, conn, user_version, caller, err,
                   snap, lastMig, prevMig, applied>>

\* open(), lines 137-143
OpenCheckId ==
    /\ UNCHANGED <<runVars, tokenVars, loginVars, stepPre>>
    /\ pc = "connected"
    /\ ~new_db
    /\ IF files[conn].appId # APPLICATION_ID
       THEN /\ pc' = "raised"
            /\ err' = "KeyError"
       ELSE /\ pc' = "checked"
            /\ err' = "none"
    /\ UNCHANGED <<env, files, argPath, new_db, conn, user_version, caller,
                   snap, lastMig, prevMig, applied>>

\* open(), lines 146-149: read user_version and call _upgrade with it
OpenReadVersion ==
    /\ UNCHANGED <<runVars, tokenVars, loginVars>>
    /\ pc = "checked"
    /\ user_version' = files[conn].ver
    /\ pc' = "upgrade"
    /\ stepPre' = [valid |-> TRUE, file |-> files[conn]]
    /\ UNCHANGED <<env, files, argPath, new_db, conn, caller, err, snap,
                   lastMig, prevMig, applied>>

\* How an _upgrade call ends: it returns (e = "none") or raises e.  Called
\* from open(), a raise is open()'s raise and the return is followed by
\* open()'s own `return conn`; called directly, the handle stays with the
\* caller either way.
UpgradeEnds(e, f) ==
    /\ err' = e
    /\ pc' = IF caller = "open" /\ e # "none" THEN "raised" ELSE "returned"
    /\ prevMig' = lastMig
    /\ lastMig' = [valid |-> TRUE, v |-> user_version, err |-> e, after |-> f]

\* CREATE TABLE t (no IF NOT EXISTS): fails when the table is there.
CreateTableFails(f, t) == t \in f.tables

\* _upgrade(), lines 170-177
UpgradeCreateAws ==
    /\ UNCHANGED <<runVars, tokenVars, loginVars, stepPre>>
    /\ pc = "upgrade"
    /\ user_version = 0
    /\ IF CreateTableFails(files[conn], "cred_aws")
       THEN /\ UpgradeEnds("OperationalError", files[conn])
            /\ UNCHANGED files
       ELSE /\ files' = [files EXCEPT ![conn].tables = @ \cup {"cred_aws"}]
            /\ pc' = "aws_created"
            /\ UNCHANGED <<err, lastMig, prevMig>>
    /\ UNCHANGED <<env, argPath, new_db, conn, user_version, caller, snap,
                   applied>>

\* _upgrade(), lines 178-183
UpgradeCreateGlobus ==
    /\ UNCHANGED <<runVars, tokenVars, loginVars, stepPre>>
    /\ pc = "aws_created"
    /\ IF CreateTableFails(files[conn], "cred_globus")
       THEN /\ UpgradeEnds("OperationalError", files[conn])
            /\ UNCHANGED files
       ELSE /\ files' = [files EXCEPT ![conn].tables = @ \cup {"cred_globus"}]
            /\ pc' = "globus_created"
            /\ UNCHANGED <<err, lastMig, prevMig>>
    /\ UNCHANGED <<env, argPath, new_db, conn, user_version, caller, snap,
                   applied>>

\* _upgrade(), lines 184-188
UpgradeSetVersion ==
    /\ UNCHANGED <<runVars, tokenVars, loginVars, stepPre>>
    /\ pc = "globus_created"
    /\ files' = [files EXCEPT ![conn].ver = 1]
    /\ UpgradeEnds("none", [files[conn] EXCEPT !.ver = 1])
    /\ applied' = [applied EXCEPT ![conn] = @ + 1]
    /\ UNCHANGED <<env, argPath, new_db, conn, user_version, caller, snap>>

\* _upgrade(), lines 170, 187-188: nothing to do for this user_version
UpgradeSkip ==
    /\ UNCHANGED <<runVars, tokenVars, loginVars, stepPre>>
    /\ pc = "upgrade"
    /\ user_version # 0
    /\ UpgradeEnds("none", files[conn])
    /\ UNCHANGED <<env, files, argPath, new_db, conn, user_version, caller,
                   snap, applied>>

\* The process dies between two statements of open()/_upgrade().  Every
\* statement so far ran outside a transaction, so the file keeps them all.
Crash ==
    /\ UNCHANGED <<runVars, tokenVars, loginVars, stepPre>>
    /\ pc \in {"connected", "id_set", "checked", "upgrade", "aws_created",
               "globus_created"}
    /\ pc' = "crashed"
    /\ conn' = "none"
    /\ lastMig' = NoMig
    /\ prevMig' = NoMig
    /\ UNCHANGED <<env, files, argPath, new_db, user_version, caller, err,
                   snap, applied>>

\* _upgrade(conn, v) called on a handle open() returned.
UpgradeCall(v) ==
    /\ UNCHANGED <<runVars, tokenVars, loginVars>>
    /\ pc = "returned"
    /\ conn # "none"
    /\ caller' = "direct"
    /\ user_version' = v
    /\ pc' = "upgrade"
    /\ stepPre' = [valid |-> TRUE, file |-> files[conn]]
    /\ err' = "none"
    /\ UNCHANGED <<env, files, argPath, new_db, conn, snap, lastMig, prevMig, applied>>

NextStore ==
    \/ \E a \in {"None", "D", "P"} : OpenBegin(a)
    \/ OpenSetAppId
    \/ OpenSetVersion
    \/ OpenCheckId
    \/ OpenReadVersion
    \/ UpgradeCreateAws
    \/ UpgradeCreateGlobus
    \/ UpgradeSetVersion
    \/ UpgradeSkip
    \/ Crash

----------------------------------------------------------------------------
(* acp/globus.py: TokenStorage *)

Keys == {"a", "b"}

\* Python values a caller may put in the mapping (dict[str, Any]).
PyInt(s) == [t |-> "int", s |-> s]
PyTuple == [t |-> "tuple", s |-> "1, 2"]
PyList == [t |-> "list", s |-> "1, 2"]
PySet == [t |-> "set", s |-> "1, 2"]
PyValues == {PyInt("1"), PyInt("2"), PyTuple, PySet}

\* json.dumps: the JSON text, or the TypeError it raises.  A tuple is
\* written as a JSON array; a set has no JSON form.
Dumps(v) ==
    CASE v.t = "int" -> [err |-> "none", json |-> v.s]
      [] v.t \in {"tuple", "list"} -> [err |-> "none", json |-> "[" \o v.s \o "]"]
      [] OTHER -> [err |-> "TypeError", json |-> ""]

\* json.loads of the texts Dumps produces: a JSON array comes back a list.
Loads(j) ==
    IF j = "[1, 2]" THEN PyList ELSE PyInt(j)

\* A mapping is the sequence of its items in iteration order, keys distinct.
Mappings ==
    {m \in UNION {[1..n -> [k : Keys, v : PyValues]] :
                    n \in 0..Cardinality(Keys)} :
        \A i, j \in DOMAIN m : i # j => m[i].k # m[j].k}

KeysOf(m) == {m[i].k : i \in DOMAIN m}

\* INSERT with no conflict clause on an existing key: shown here as the row
\* being added beside the old one.
InsertBeside(rows, k, j) == rows \cup {<<k, j>>}

\* INSERT OR REPLACE INTO cred_globus (key, json): key is the primary key.
Upsert(rows, k, j) == {r \in rows : r[1] # k} \cup {<<k, j>>}

\* write_tokens(), lines 97-103: the loop from item i on, over the rows the
\* connection sees; stops at the first item json.dumps rejects.
RECURSIVE WriteLoop(_, _, _)
WriteLoop(rows, m, i) ==
    IF i > Len(m) THEN [rows |-> rows, err |-> "none", done |-> Len(m)]
    ELSE IF Dumps(m[i].v).err # "none"
         THEN [rows |-> rows, err |-> Dumps(m[i].v).err, done |-> i - 1]
         ELSE WriteLoop(Upsert(rows, m[i].k, Dumps(m[i].v).json), m, i + 1)

\* read_tokens() returning the stored text undecoded.
ReadRowsRaw(rows) ==
    [k \in {r[1] : r \in rows} |->
        [t |-> "str", s |-> (CHOOSE r \in rows : r[1] = k)[2]]]

\* read_tokens(), lines 76-85: the dict built from the rows.
ReadRows(rows) ==
    [k \in {r[1] : r \in rows} |-> Loads((CHOOSE r \in rows : r[1] = k)[2])]

NoOp == [op |-> "none", m |-> <<>>, err |-> "none", before |-> {},
         afterWrite |-> FALSE]

InitTokens ==
    /\ committed = {}
    /\ working = {}
    /\ inTxn = FALSE
    /\ lastOp = NoOp
    /\ readResult = <<>>

\* TokenStorage.read_tokens()
ReadTokens ==
    /\ UNCHANGED <<runVars, storeVars, loginVars>>
    /\ readResult' = ReadRows(working)
    /\ lastOp' = [op |-> "read",
                  m |-> lastOp.m,
                  err |-> "none",
                  before |-> lastOp.before,
                  afterWrite |-> (lastOp.op = "write" /\ lastOp.err = "none")]
    /\ UNCHANGED <<committed, working, inTxn>>

\* TokenStorage.write_tokens(m): BEGIN, the loop, commit.  An exception
\* leaves the method where it is raised; nothing rolls back.
WriteTokens(m) ==
    /\ UNCHANGED <<runVars, storeVars, loginVars>>
    /\ IF inTxn
       THEN \* line 92: BEGIN within a transaction
            /\ lastOp' = [op |-> "write", m |-> m, err |-> "OperationalError",
                          before |-> working, afterWrite |-> FALSE]
            /\ UNCHANGED <<committed, working, inTxn>>
       ELSE LET r == WriteLoop(working, m, 1)
            IN  /\ lastOp' = [op |-> "write", m |-> m, err |-> r.err,
                              before |-> working, afterWrite |-> FALSE]
                /\ working' = r.rows
                /\ IF r.err = "none"
                   THEN /\ committed' = r.rows
                        /\ inTxn' = FALSE
                   ELSE /\ inTxn' = TRUE
                        /\ UNCHANGED committed
    /\ UNCHANGED readResult

\* The process dies in write_tokens(m) before the commit, after any number
\* of its items: SQLite rolls the open transaction back, and the next
\* process connects to the file as it was.
WriteTokensCrash(m) ==
    /\ UNCHANGED <<runVars, storeVars, loginVars>>
    /\ ~inTxn
    /\ lastOp' = [op |-> "write_crash", m |-> m, err |-> "none",
                  before |-> working, afterWrite |-> FALSE]
    /\ working' = committed
    /\ inTxn' = FALSE
    /\ UNCHANGED <<committed, readResult>>

\* TokenStorage.clear_tokens(): BEGIN, DELETE, commit.
ClearTokens ==
    /\ UNCHANGED <<runVars, storeVars, loginVars>>
    /\ IF inTxn
       THEN \* line 110: BEGIN within a transaction
            /\ lastOp' = [op |-> "clear", m |-> <<>>, err |-> "OperationalError",
                          before |-> working, afterWrite |-> FALSE]
            /\ UNCHANGED <<committed, working, inTxn>>
       ELSE /\ lastOp' = [op |-> "clear", m |-> <<>>, err |-> "none",
                          before |-> working, afterWrite |-> FALSE]
            /\ working' = {}
            /\ committed' = {}
            /\ inTxn' = FALSE
    /\ UNCHANGED readResult

\* TokenStorage.__del__ (or the end of the process) closes the connection;
\* an open transaction is rolled back.  The next TokenStorage connects anew.
Reconnect ==
    /\ UNCHANGED <<runVars, storeVars, loginVars>>
    /\ working' = committed
    /\ inTxn' = FALSE
    /\ lastOp' = [op |-> "reconnect", m |-> <<>>, err |-> "none",
                  before |-> working, afterWrite |-> FALSE]
    /\ UNCHANGED <<committed, readResult>>

NextTokens ==
    \/ ReadTokens
    \/ \E m \in Mappings : WriteTokens(m)
    \/ \E m \in Mappings : WriteTokensCrash(m)
    \/ ClearTokens
    \/ Reconnect

\* The store the token storage works on: open() has returned on a fresh
\* default path.
StoreReady ==
    /\ env = [ACP |-> FALSE, XDG |-> FALSE, HOME |-> TRUE]
    /\ files = [p \in Paths |->
                  IF p = "D"
                  THEN [exists |-> TRUE, appId |-> APPLICATION_ID, ver |-> 1,
                        tables |-> CredTables]
                  ELSE NoFile]
    /\ pc = "returned"
    /\ argPath = "None"
    /\ new_db = TRUE
    /\ conn = "D"
    /\ user_version = 0
    /\ caller = "open"
    /\ err = "none"
    /\ snap = [p \in Paths |-> NoFile]
    /\ lastMig = NoMig
    /\ prevMig = NoMig
    /\ applied = [p \in Paths |-> IF p = "D" THEN 1 ELSE 0]
    /\ stepPre = NoStep

----------------------------------------------------------------------------
(* acp/globus.py: needs_login *)

REQUIRED_SCOPES ==
    <<"openid", "profile", "urn:globus:auth:scope:transfer.api.globus.org:all">>

RequiredSet == {REQUIRED_SCOPES[i] : i \in DOMAIN REQUIRED_SCOPES}

\* The scopes stored tokens may cover: the required ones and one the
\* program does not ask for.
AllScopes == RequiredSet \cup {"email"}

\* The loop with an else branch that sets all_scopes_found again for every
\* scope it finds: the last scope alone decides.
RECURSIVE ScopeLoopLastWins(_, _, _)
ScopeLoopLastWins(auth, i, found) ==
    IF i > Len(REQUIRED_SCOPES) THEN found
    ELSE ScopeLoopLastWins(auth, i + 1, REQUIRED_SCOPES[i] \in auth)

\* needs_login(), lines 197-201: the loop over REQUIRED_SCOPES from scope i
\* on, all_scopes_found so far being `found`.
RECURSIVE ScopeLoop(_, _, _)
ScopeLoop(auth, i, found) ==
    IF i > Len(REQUIRED_SCOPES) THEN found
    ELSE ScopeLoop(auth, i + 1,
                   IF REQUIRED_SCOPES[i] \notin auth THEN FALSE ELSE found)

NeedsLoginLastWins(load) ==
    IF load.raised THEN TRUE
    ELSE IF ~ScopeLoopLastWins(load.scopes, 1, TRUE) THEN TRUE ELSE FALSE

\* needs_login(), lines 190-213.  load is what the client did: raised
\* LoadError in load_tokens() or get_authorizers_by_scope(), or returned
\* the authorizers, keyed by scope.
NeedsLogin(load) ==
    IF load.raised THEN TRUE
    ELSE IF ~ScopeLoop(load.scopes, 1, TRUE) THEN TRUE ELSE FALSE

\* What client.load_tokens() and client.get_authorizers_by_scope() can do
\* with the stored tokens.  Tokens that are stored and valid give an
\* authorizer for each scope they were granted for.  Expired tokens are
\* refreshed and give the same, or the refresh fails and LoadError is
\* raised.  With nothing stored LoadError is raised, or no authorizer is
\* returned.
LoadOutcomes ==
    LET ok == [raised |-> FALSE, scopes |-> grants, stored |-> grants,
               state |-> tokenState]
        bad == [raised |-> TRUE, scopes |-> {}, stored |-> grants,
                state |-> tokenState]
    IN  IF grants # {} /\ tokenState = "valid" THEN {ok} ELSE {ok, bad}

InitLogin ==
    /\ grants = {}
    /\ tokenState = "valid"
    /\ nlSeen = [raised |-> TRUE, scopes |-> {}, stored |-> {},
                 state |-> "valid"]
    /\ nlCalled = FALSE
    /\ nlResult = TRUE
    /\ nlPrev = "none"

\* needs_login(client): the result is computed from what the client does
\* in this call.  A refresh that succeeds rewrites the stored tokens.
NeedsLoginCall ==
    /\ UNCHANGED <<runVars, storeVars, tokenVars>>
    /\ \E load \in LoadOutcomes :
          /\ nlSeen' = load
          /\ nlResult' = NeedsLogin(load)
          /\ tokenState' = IF ~load.raised /\ grants # {} THEN "valid"
                           ELSE tokenState
    /\ nlCalled' = TRUE
    /\ nlPrev' = IF ~nlCalled THEN "none"
                 ELSE IF nlResult THEN "true" ELSE "false"
    /\ UNCHANGED grants

\* client.login(...) completing (cli.py): the tokens granted are stored.
ClientLogin(S) ==
    /\ UNCHANGED <<runVars, storeVars, tokenVars>>
    /\ grants' = S
    /\ tokenState' = "valid"
    /\ UNCHANGED <<nlSeen, nlCalled, nlResult, nlPrev>>

\* client.logout() (cli.py): the stored tokens are revoked and removed.
ClientLogout ==
    /\ UNCHANGED <<runVars, storeVars, tokenVars>>
    /\ grants' = {}
    /\ tokenState' = "valid"
    /\ UNCHANGED <<nlSeen, nlCalled, nlResult, nlPrev>>

\* Time passes: the stored access tokens expire.
TokensExpire ==
    /\ UNCHANGED <<runVars, storeVars, tokenVars>>
    /\ grants # {}
    /\ tokenState = "valid"
    /\ tokenState' = "expired"
    /\ UNCHANGED <<grants, nlSeen, nlCalled, nlResult, nlPrev>>

NextLogin ==
    \/ NeedsLoginCall
    \/ \E S \in (SUBSET AllScopes) \ {{}} : ClientLogin(S)
    \/ ClientLogout
    \/ TokensExpire

----------------------------------------------------------------------------
(* acp/cli.py: main() and _main(); acp/globus.py: get_client,             *)
(* find_collections, get_collection                                        *)

\* A file whose 0 -> 1 step an earlier run began and did not finish.
Interrupted ==
    [exists |-> TRUE, appId |-> APPLICATION_ID, ver |-> 0,
     tables |-> {"cred_aws"}]

\* A file an earlier run of open() brought to user_version 1.
Migrated ==
    [exists |-> TRUE, appId |-> APPLICATION_ID, ver |-> 1,
     tables |-> CredTables]

\* open() with no argument, from call to return or raise, on the file f at
\* the default path: the exception raised ("none" if it returns), the file
\* as the call leaves it, and whether the call had connected.  No line of
\* open() closes the connection.
OpenDefault(e, f) ==
    IF DbPath(e).err # "none"
    THEN [err |-> DbPath(e).err, file |-> f, connected |-> FALSE]
    ELSE IF ~f.exists
    THEN [err |-> "none", file |-> Migrated, connected |-> TRUE]
    ELSE IF f.appId # APPLICATION_ID
    THEN [err |-> "KeyError", file |-> f, connected |-> TRUE]
    ELSE IF f.ver # 0
    THEN [err |-> "none", file |-> f, connected |-> TRUE]
    ELSE IF CreateTableFails(f, "cred_aws")
    THEN [err |-> "OperationalError", file |-> f, connected |-> TRUE]
    ELSE IF CreateTableFails(f, "cred_globus")
    THEN [err |-> "OperationalError",
          file |-> [f EXCEPT !.tables = @ \cup {"cred_aws"}],
          connected |-> TRUE]
    ELSE [err |-> "none",
          file |-> [f EXCEPT !.tables = @ \cup CredTables, !.ver = 1],
          connected |-> TRUE]

\* The test of line 68 reduced to its first operand.
UseBrowserWhenLocal(ssh, display) == ~ssh

\* _main(), line 68: a web browser is used for the login.
UseBrowser(ssh, display) == (~ssh) \/ (ssh /\ display)

\* The check of line 52 followed by the login block without line 57.
AfterNeedsLoginNoLogout(needs) ==
    IF needs THEN "check_interactive" ELSE "greeting"

\* Line 57 moved out of the if block of line 52.
AfterNeedsLoginAlwaysLogout(needs) == "logout"

\* _main(), lines 52-57 and 90: where the run goes after needs_login().
AfterNeedsLogin(needs) ==
    IF needs THEN "logout" ELSE "greeting"

\* The except clauses of lines 74-76 and 86-88 going back to the login.
AfterLoginRetry(ok) ==
    IF ok THEN "greeting" ELSE "login"

\* _main(), lines 71-76 and 80-88: where the run goes after g.login();
\* the except clauses end the run with sys.exit(1).
AfterLogin(ok) ==
    IF ok THEN "greeting" ELSE "exit"

\* main() without the test of line 158.
MainExitCodeZero(tty) == 0

\* main(), lines 157-163, reached when _main() has returned: sys.exit(1)
\* when stdout is no terminal; otherwise main() returns and the process
\* ends with exit code 0.
MainExitCode(tty) == IF ~tty THEN 1 ELSE 0

\* find_collections(), lines 227-240, the search having returned n
\* endpoints: the loop body calls endpoints.push, which a list has not.
FindCollections(n) ==
    IF n = 0 THEN [err |-> "none", len |-> 0]
    ELSE [err |-> "AttributeError", len |-> 0]

NoCollection == [from |-> "none", index |-> 0]

NoResponse ==
    [response_is_int |-> FALSE, response_int |-> 0,
     response_is_uuid |-> FALSE, resolves |-> FALSE]

\* What the user may type: text int() accepts (response_int is its value),
\* text uuid.UUID() accepts (resolves: get_endpoint finds it), text both
\* accept (32 digits), or text neither accepts.
Responses ==
    {r \in [response_is_int : BOOLEAN, response_int : 0..(MaxRecent + 1),
            response_is_uuid : BOOLEAN, resolves : BOOLEAN] :
        /\ ~r.response_is_int => r.response_int = 0
        /\ ~r.response_is_uuid => ~r.resolves}

\* _main(), lines 131-149: the collection one pass of the loop leaves, for
\* a list of length len.  get_collection() raises KeyError for a UUID that
\* does not resolve; the number branch runs after the UUID branch.
LoopBody(len, r) ==
    LET byUuid == IF r.response_is_uuid /\ r.resolves
                  THEN [from |-> "uuid", index |-> 0]
                  ELSE NoCollection
        i == r.response_int - 1
    IN  IF r.response_is_int /\ ~((i < 0) \/ (i >= len))
        THEN [from |-> "list", index |-> i]
        ELSE byUuid

\* The scopes tokens found in the store at the start may cover: none, or
\* what a login of a version with a shorter REQUIRED_SCOPES left.
StoredGrants == {{}, RequiredSet \ {REQUIRED_SCOPES[3]}}

\* No run of main() is under way.
NoRun ==
    /\ rpc = "none"
    /\ is_interactive = FALSE
    /\ is_ssh = FALSE
    /\ has_display = FALSE
    /\ handles = {}
    /\ released = {}
    /\ events = <<>>
    /\ exitCode = -1
    /\ exitCause = "none"
    /\ collections_list = 0
    /\ collection = NoCollection
    /\ prompts = 0
    /\ response = NoResponse

\* The process starts: lines 39-41 read the terminal and the environment.
InitRun ==
    /\ rpc = "start"
    /\ is_interactive \in BOOLEAN
    /\ is_ssh \in BOOLEAN
    /\ has_display \in BOOLEAN
    /\ handles = {}
    /\ released = {}
    /\ events = <<>>
    /\ exitCode = -1
    /\ exitCause = "none"
    /\ collections_list = 0
    /\ collection = NoCollection
    /\ prompts = 0
    /\ response = NoResponse

InitRunStore ==
    /\ env \in Envs
    /\ files \in [Paths -> {NoFile} \cup ForeignFiles \cup {Interrupted}]
    /\ files["P"] = NoFile
    /\ pc = "idle"
    /\ argPath = "None"
    /\ new_db = FALSE
    /\ conn = "none"
    /\ user_version = 0
    /\ caller = "open"
    /\ err = "none"
    /\ snap = files
    /\ lastMig = NoMig
    /\ prevMig = NoMig
    /\ applied = [p \in Paths |-> 0]
    /\ stepPre = NoStep

InitRunLogin ==
    /\ grants \in StoredGrants
    /\ tokenState = "valid"
    /\ nlSeen = [raised |-> TRUE, scopes |-> {}, stored |-> {},
                 state |-> "valid"]
    /\ nlCalled = FALSE
    /\ nlResult = TRUE
    /\ nlPrev = "none"

\* The run ends: by sys.exit(code), by an exception nothing handles (the
\* interpreter exits with 1), or by main() returning.
RunEnds(code, cause) ==
    /\ rpc' = "exited"
    /\ exitCode' = code
    /\ exitCause' = cause

\* _main(), line 44: db = await acp.db.open()
RunOpen ==
    /\ UNCHANGED <<openVars, tokenVars, loginVars>>
    /\ rpc = "start"
    /\ LET r == OpenDefault(env, files["D"])
       IN  /\ files' = [files EXCEPT !["D"] = r.file]
           /\ handles' = IF r.connected THEN {"db"} ELSE {}
           /\ IF r.err = "none"
              THEN /\ rpc' = "opened"
                   /\ UNCHANGED <<exitCode, exitCause>>
              ELSE RunEnds(1, r.err)
    /\ events' = Append(events, "open")
    /\ UNCHANGED <<env, flagVars, released, selVars>>

\* get_client(), lines 133-135: the token storage connects to the file.
GetClientConnect ==
    /\ UNCHANGED <<storeVars, tokenVars, loginVars>>
    /\ rpc = "opened"
    /\ handles' = handles \cup {"token_storage"}
    /\ rpc' = "storage_connected"
    /\ events' = Append(events, "get_client")
    /\ UNCHANGED <<flagVars, released, exitCode, exitCause, selVars>>

\* get_client(), lines 138-146: await db.close(), then the client is made.
GetClientClose ==
    /\ UNCHANGED <<storeVars, tokenVars, loginVars>>
    /\ rpc = "storage_connected"
    /\ handles' = handles \ {"db"}
    /\ released' = released \cup {"db"}
    /\ rpc' = "client"
    /\ UNCHANGED <<flagVars, events, exitCode, exitCause, selVars>>

\* _main(), line 52: needs_login(g)
RunNeedsLogin ==
    /\ UNCHANGED <<storeVars, tokenVars>>
    /\ rpc = "client"
    /\ \E load \in LoadOutcomes :
          /\ nlSeen' = load
          /\ nlResult' = NeedsLogin(load)
          /\ tokenState' = IF ~load.raised /\ grants # {} THEN "valid"
                           ELSE tokenState
          /\ rpc' = AfterNeedsLogin(NeedsLogin(load))
    /\ nlCalled' = TRUE
    /\ nlPrev' = IF ~nlCalled THEN "none"
                 ELSE IF nlResult THEN "true" ELSE "false"
    /\ events' = Append(events, "needs_login")
    /\ UNCHANGED <<grants, flagVars, handles, released, exitCode, exitCause,
                   selVars>>

\* Line 57 placed after the test of lines 60-63: without an interactive
\* terminal the run goes on to its exit with the stored tokens untouched.
RunLogoutIfInteractive ==
    /\ UNCHANGED <<storeVars, tokenVars>>
    /\ rpc = "logout"
    /\ grants' = IF is_interactive THEN {} ELSE grants
    /\ tokenState' = IF is_interactive THEN "valid" ELSE tokenState
    /\ rpc' = "check_interactive"
    /\ events' = IF is_interactive THEN Append(events, "logout") ELSE events
    /\ UNCHANGED <<nlSeen, nlCalled, nlResult, nlPrev, flagVars, handles,
                   released, exitCode, exitCause, selVars>>

\* _main(), line 57: g.logout() revokes the stored tokens and removes them.
RunLogout ==
    /\ UNCHANGED <<storeVars, tokenVars>>
    /\ rpc = "logout"
    /\ grants' = {}
    /\ tokenState' = "valid"
    /\ rpc' = "check_interactive"
    /\ events' = Append(events, "logout")
    /\ UNCHANGED <<nlSeen, nlCalled, nlResult, nlPrev, flagVars, handles,
                   released, exitCode, exitCause, selVars>>

\* _main(), lines 60-63
RunCheckInteractive ==
    /\ UNCHANGED <<storeVars, tokenVars, loginVars>>
    /\ rpc = "check_interactive"
    /\ IF ~is_interactive
       THEN RunEnds(1, "InteractiveRequired")
       ELSE /\ rpc' = "login"
            /\ UNCHANGED <<exitCode, exitCause>>
    /\ UNCHANGED <<flagVars, handles, released, events, selVars>>

\* _main(), lines 68-88: g.login(refresh_tokens=True) with a browser, or
\* g.login(no_local_server=True, no_browser=True, refresh_tokens=True);
\* the flow stores tokens for REQUIRED_SCOPES (ok) or raises, which the
\* events record as "login_raised".
RunLogin(ok) ==
    /\ UNCHANGED <<storeVars, tokenVars>>
    /\ rpc = "login"
    /\ events' = events
                    \o <<IF UseBrowser(is_ssh, has_display)
                          THEN "login_browser" ELSE "login_headless">>
                    \o (IF ok THEN <<>> ELSE <<"login_raised">>)
    /\ IF ok
       THEN /\ grants' = RequiredSet
            /\ tokenState' = "valid"
       ELSE UNCHANGED <<grants, tokenState>>
    /\ IF AfterLogin(ok) = "exit"
       THEN RunEnds(1, "AuthFailure")
       ELSE /\ rpc' = AfterLogin(ok)
            /\ UNCHANGED <<exitCode, exitCause>>
    /\ UNCHANGED <<nlSeen, nlCalled, nlResult, nlPrev, flagVars, handles,
                   released, selVars>>

\* _main(), lines 91-94: the greeting and the transfer client.
RunGreeting ==
    /\ UNCHANGED <<storeVars, tokenVars, loginVars>>
    /\ rpc = "greeting"
    /\ rpc' = "find_collections"
    /\ events' = Append(events, "greeting")
    /\ UNCHANGED <<flagVars, handles, released, exitCode, exitCause, selVars>>

\* _main(), lines 97-107: find_collections(), the search returning n
\* endpoints.
RunFindCollections(n) ==
    /\ UNCHANGED <<storeVars, tokenVars, loginVars>>
    /\ rpc = "find_collections"
    /\ events' = Append(events, "find_collections")
    /\ IF FindCollections(n).err = "none"
       THEN /\ collections_list' = FindCollections(n).len
            /\ rpc' = "prompt"
            /\ UNCHANGED <<exitCode, exitCause>>
       ELSE /\ RunEnds(1, FindCollections(n).err)
            /\ UNCHANGED collections_list
    /\ UNCHANGED <<flagVars, handles, released, collection, prompts, response>>

\* _main(), lines 108-149: one pass of the loop, the user typing r.
RunPrompt(r) ==
    /\ UNCHANGED <<storeVars, tokenVars, loginVars>>
    /\ rpc = "prompt"
    /\ response' = r
    /\ prompts' = IF prompts < MaxPrompts THEN prompts + 1 ELSE prompts
    /\ collection' = LoopBody(collections_list, r)
    /\ rpc' = IF LoopBody(collections_list, r) = NoCollection
              THEN "prompt" ELSE "selected"
    /\ UNCHANGED <<flagVars, handles, released, events, exitCode, exitCause,
                   collections_list>>

\* _main(), line 151, returns; main(), lines 157-163.
MainEnd ==
    /\ UNCHANGED <<storeVars, tokenVars, loginVars>>
    /\ rpc = "selected"
    /\ RunEnds(MainExitCode(is_interactive),
               IF MainExitCode(is_interactive) = 1 THEN "batch"
               ELSE "completed")
    /\ UNCHANGED <<flagVars, handles, released, events, selVars>>

\* The program is run again: the process before it is gone, and with it
\* every handle it had left open.
RunAgain ==
    /\ UNCHANGED <<storeVars, tokenVars, loginVars>>
    /\ rpc = "exited"
    /\ rpc' = "start"
    /\ is_interactive' \in BOOLEAN
    /\ is_ssh' \in BOOLEAN
    /\ has_display' \in BOOLEAN
    /\ handles' = {}
    /\ released' = {}
    /\ events' = <<>>
    /\ exitCode' = -1
    /\ exitCause' = "none"
    /\ collections_list' = 0
    /\ collection' = NoCollection
    /\ prompts' = 0
    /\ response' = NoResponse

NextRun ==
    \/ RunOpen
    \/ GetClientConnect
    \/ GetClientClose
    \/ RunNeedsLogin
    \/ RunLogout
    \/ RunCheckInteractive
    \/ \E ok \in BOOLEAN : RunLogin(ok)
    \/ RunGreeting
    \/ \E n \in 0..MaxRecent : RunFindCollections(n)
    \/ \E r \in Responses : RunPrompt(r)
    \/ MainEnd
    \/ RunAgain
    \/ TokensExpire

----------------------------------------------------------------------------
(* Specifications *)

Init == InitStore /\ InitTokens /\ InitLogin /\ NoRun

Next == NextStore

Spec == Init /\ [][Next]_vars

NextMigrate ==
    \/ Next
    \/ \E v \in 0..MaxVersion : UpgradeCall(v)

SpecMigrate == Init /\ [][NextMigrate]_vars

InitTokenStore == StoreReady /\ InitTokens /\ InitLogin /\ NoRun

SpecTokens == InitTokenStore /\ [][NextTokens]_vars

SpecLogin == InitTokenStore /\ [][NextLogin]_vars

InitMain == InitRunStore /\ InitTokens /\ InitRunLogin /\ InitRun

SpecRun == InitMain /\ [][NextRun]_vars

----------------------------------------------------------------------------
(* Claims about the store file (Spec, SpecMigrate) *)

\* The file an open() call was asked to open.
Target == IF argPath = "None" THEN "D" ELSE argPath

OpenEnded == caller = "open" /\ pc \in {"returned", "raised"}

\* The environment is one in which db_path() returns a path.
EnvResolves == DbPath(env).err = "none"

\* C1: where db_path() resolves, an open() on a path at which no file
\* exists returns a handle to a file that carries APPLICATION_ID and
\* user_version 1, with both credential tables.
C1_FreshOpenReturnsStore ==
    (EnvResolves /\ OpenEnded /\ new_db) =>
        /\ pc = "returned"
        /\ conn # "none"
        /\ files[conn].appId = APPLICATION_ID
        /\ files[conn].ver = 1
        /\ CredTables \subseteq files[conn].tables

\* C2: where db_path() resolves, an open() on an existing file with a
\* foreign application_id ends in the identity-mismatch KeyError, and at no
\* point of the call does that file differ from what it was when the call
\* began.
C2_ForeignFileRejected ==
    (EnvResolves /\ caller = "open" /\ pc # "idle"
        /\ snap[Target].exists /\ snap[Target].appId # APPLICATION_ID) =>
        /\ files[Target] = snap[Target]
        /\ (pc \in {"returned", "raised"} => pc = "raised" /\ err = "KeyError")

\* C3: in every step, a file that existed when the current open() began
\* keeps its application_id, no file's user_version decreases or advances
\* by more than one, and the 0 -> 1 step has completed at most once on any
\* file.
C3_TagFixedVersionForward ==
    [][\A p \in Paths :
          /\ (files[p].exists /\ snap[p].exists) =>
                 files'[p].appId = files[p].appId
          /\ files[p].exists =>
                 /\ files'[p].ver >= files[p].ver
                 /\ files'[p].ver <= files[p].ver + 1
          /\ applied'[p] <= 1]_vars

\* C4: of two consecutive _upgrade calls on one handle with the same
\* user_version argument, the first having returned, the second returns
\* too and leaves the file as the first left it.
C4_UpgradeTwiceSameAsOnce ==
    (lastMig.valid /\ prevMig.valid /\ prevMig.err = "none"
        /\ lastMig.v = prevMig.v) =>
        /\ lastMig.err = "none"
        /\ lastMig.after = prevMig.after

\* The file _upgrade works on, as it was when the step began, and as the
\* whole 0 -> 1 step makes it.
PreStep == stepPre.file
PostStep ==
    [stepPre.file EXCEPT !.tables = @ \cup CredTables, !.ver = user_version + 1]

\* C5: whenever the process has crashed or an exception has been raised
\* after _upgrade was entered, the file it works on is as it was before the
\* step (no table of the step, user_version as it was) or as the whole step
\* makes it (both credential tables, user_version one higher).
C5_StepAllOrNothing ==
    (stepPre.valid /\ (pc = "crashed" \/ err # "none")) =>
        \/ files["D"] = PreStep
        \/ files["D"] = PostStep

\* C17: while an open() call holds a connection, the connection is to the
\* file the call was asked to open (the given path, or the default path if
\* none was given), and no other file differs from what it was when the
\* call began.
C17_OpenUsesGivenPath ==
    (caller = "open" /\ conn # "none") =>
        /\ conn = Target
        /\ \A p \in Paths \ {Target} : files[p] = snap[p]

\* The directory the precedence of the db_path() docstring gives.
PrecedenceDir(e) ==
    IF e.ACP THEN "$ACP_DB_HOME"
    ELSE IF e.XDG THEN "$XDG_DATA_HOME/acp"
    ELSE IF e.HOME THEN "$HOME/.local/share/acp"
    ELSE "~/.local/share/acp"

\* C18: in every environment, once open() has called db_path(), the call
\* raised nothing and chose the directory the precedence gives:
\* $ACP_DB_HOME, else $XDG_DATA_HOME/acp, else $HOME/.local/share/acp, else
\* ~/.local/share/acp.
C18_PathByPrecedence ==
    (caller = "open" /\ pc # "idle") =>
        /\ DbPath(env).err = "none"
        /\ DbPath(env).dir = PrecedenceDir(env)
        /\ err # "TypeError"

----------------------------------------------------------------------------
(* Claims about the token table (SpecTokens) *)

\* The rows of `before` with every item of m upserted.
Merged(before, m) ==
    {r \in before : r[1] \notin KeysOf(m)}
        \cup {<<m[i].k, Dumps(m[i].v).json>> : i \in DOMAIN m}

\* What m reads back as: each value encoded, then decoded.
Decoded(m) ==
    [k \in KeysOf(m) |->
        LET i == CHOOSE i \in DOMAIN m : m[i].k = k
        IN  Loads(Dumps(m[i].v).json)]

\* C6: after a write_tokens(m) call, however it ended, the rows later calls
\* see are the rows from before the call, or those rows with every item of
\* m upserted.
C6_WriteAllOrNothing ==
    lastOp.op \in {"write", "write_crash"} =>
        \/ working = lastOp.before
        \/ /\ \A i \in DOMAIN lastOp.m : Dumps(lastOp.m[i].v).err = "none"
           /\ working = Merged(lastOp.before, lastOp.m)

\* C7: after a write_tokens(m) that returned, each key of m is in exactly
\* one row, holding m's encoded value; the rows of every other key are the
\* rows it had before; and the file holds what the connection sees.
C7_WriteMerges ==
    (lastOp.op = "write" /\ lastOp.err = "none") =>
        /\ \A i \in DOMAIN lastOp.m :
              /\ Cardinality({r \in working : r[1] = lastOp.m[i].k}) = 1
              /\ <<lastOp.m[i].k, Dumps(lastOp.m[i].v).json>> \in working
        /\ \A k \in Keys \ KeysOf(lastOp.m) :
              {r \in working : r[1] = k} = {r \in lastOp.before : r[1] = k}
        /\ committed = working

\* A write that replaced the row of one key and kept the row of another.
C7_Witness ==
    /\ lastOp.op = "write"
    /\ lastOp.err = "none"
    /\ \E r \in lastOp.before : r[1] \notin KeysOf(lastOp.m)
    /\ \E i \in DOMAIN lastOp.m : \E r \in lastOp.before :
          r[1] = lastOp.m[i].k /\ r[2] # Dumps(lastOp.m[i].v).json

\* C8 as stated: a read_tokens() right after a write_tokens(m) that
\* returned gives exactly m, each value encoded then decoded.
C8_ReadEqualsWritten ==
    (lastOp.op = "read" /\ lastOp.afterWrite) =>
        readResult = Decoded(lastOp.m)

\* C8 as amended: a read_tokens() right after a write_tokens(m) that
\* returned maps every key of m to m's value encoded then decoded; any other
\* key it returns is a row the table held before the write, decoded.
C8_ReadAgreesOnWrittenKeys ==
    (lastOp.op = "read" /\ lastOp.afterWrite) =>
        /\ \A k \in KeysOf(lastOp.m) :
              k \in DOMAIN readResult /\ readResult[k] = Decoded(lastOp.m)[k]
        /\ \A k \in (DOMAIN readResult) \ KeysOf(lastOp.m) :
              \E r \in lastOp.before : r[1] = k /\ readResult[k] = Loads(r[2])

\* A read after a write of a tuple (which comes back a list) into a table
\* that held another key.
C8_Witness ==
    /\ lastOp.op = "read"
    /\ lastOp.afterWrite
    /\ \E i \in DOMAIN lastOp.m :
          lastOp.m[i].v = PyTuple /\ readResult[lastOp.m[i].k] = PyList
    /\ \E r \in lastOp.before : r[1] \notin KeysOf(lastOp.m)

\* C9: every clear_tokens() call returns without an exception and leaves
\* the table empty, in the connection and in the file.
C9_ClearSucceedsAndEmpties ==
    lastOp.op = "clear" =>
        /\ lastOp.err = "none"
        /\ working = {}
        /\ committed = {}

----------------------------------------------------------------------------
(* Claims about the login check (SpecLogin) *)

\* C10: every needs_login() call returns what the client did in that very
\* call calls for: TRUE when nothing is stored, TRUE when the client raised
\* LoadError, TRUE when a required scope has no authorizer, and FALSE only
\* when the client loaded the tokens and every required scope has one.
C10_NeedsLoginDecides ==
    nlCalled =>
        /\ nlSeen.stored = {} => nlResult
        /\ nlSeen.raised => nlResult
        /\ (\E s \in RequiredSet : s \notin nlSeen.scopes) => nlResult
        /\ ~nlResult => (~nlSeen.raised /\ RequiredSet \subseteq nlSeen.scopes)
        /\ (~nlSeen.raised /\ RequiredSet \subseteq nlSeen.scopes) => ~nlResult

\* A call that returned TRUE for loaded tokens lacking only the first
\* required scope, right after a call that had returned FALSE.
C10_Witness ==
    /\ nlCalled
    /\ nlPrev = "false"
    /\ nlResult
    /\ ~nlSeen.raised
    /\ RequiredSet \ nlSeen.scopes = {REQUIRED_SCOPES[1]}

----------------------------------------------------------------------------
(* Claims about a run of main() (SpecRun) *)

Called(e) == \E i \in DOMAIN events : events[i] = e

IsLogin(e) == e \in {"login_browser", "login_headless"}

\* The login flows the run has attempted, in order.
Flows == SelectSeq(events, IsLogin)

\* needs_login() has returned TRUE in this run.
LoginRequired == Called("needs_login") /\ nlResult

\* The run is past lines 52-88.
PastLoginBlock == rpc \in {"greeting", "find_collections", "prompt",
                           "selected", "exited"}

\* The run was ended by an exception nothing handles.
Unhandled ==
    exitCause \in {"TypeError", "KeyError", "OperationalError",
                   "AttributeError"}

\* C11: in a run where needs_login() returned TRUE and that is past the
\* login block: with no interactive terminal the run has ended for that
\* reason and attempted no flow; with one, it attempted the browser flow if
\* it was not in a remote shell or had a display, and the flow without
\* browser and local server if it was in a remote shell without a display.
C11_FlowFollowsTable ==
    (LoginRequired /\ PastLoginBlock) =>
        /\ ~is_interactive =>
              /\ Flows = <<>>
              /\ rpc = "exited"
              /\ exitCause = "InteractiveRequired"
        /\ (is_interactive /\ ~is_ssh) => Flows = <<"login_browser">>
        /\ (is_interactive /\ is_ssh /\ has_display) =>
              Flows = <<"login_browser">>
        /\ (is_interactive /\ is_ssh /\ ~has_display) =>
              Flows = <<"login_headless">>

\* A run in a remote shell without a display that took the flow without
\* browser and local server, and a tokenless one.
C11_Witness ==
    /\ LoginRequired
    /\ PastLoginBlock
    /\ is_interactive /\ is_ssh /\ ~has_display
    /\ Flows = <<"login_headless">>

\* C12: every login the run attempted has a logout() before it, itself
\* after a needs_login(), with no other login in between; and when a login
\* is about to start the last call was the logout and no token is stored.
C12_LogoutBeforeLogin ==
    /\ \A i \in DOMAIN events : IsLogin(events[i]) =>
          \E j \in 1..(i - 1) :
              /\ events[j] = "logout"
              /\ \E k \in 1..(j - 1) : events[k] = "needs_login"
              /\ \A l \in (j + 1)..(i - 1) : ~IsLogin(events[l])
    /\ rpc = "login" =>
          /\ events[Len(events)] = "logout"
          /\ grants = {}

\* A login attempted after the tokens needs_login() had found were removed.
C12_Witness ==
    /\ Len(Flows) = 1
    /\ nlSeen.stored # {}
    /\ Called("logout")

\* C13: a run attempts at most one login flow; once a flow has raised, the
\* run has ended with exit code 1 for that reason, and has reached neither
\* the greeting nor the selection of a collection.
C13_OneLoginNoRetry ==
    /\ Len(Flows) <= 1
    /\ Called("login_raised") =>
          /\ rpc = "exited"
          /\ exitCode = 1
          /\ exitCause = "AuthFailure"
          /\ ~Called("greeting")
          /\ ~Called("find_collections")
          /\ prompts = 0
          /\ collection = NoCollection

\* A run ended by a login flow that raised.
C13_Witness ==
    /\ Called("login_raised")
    /\ rpc = "exited"
    /\ Len(Flows) = 1

\* C14: a run that ended by sys.exit() or by main() returning (not by an
\* exception nothing handles) has exit code 1 if it required a login
\* without an interactive terminal, if its login flow raised, or if it ran
\* to the end without an interactive terminal; it has exit code 0
\* otherwise.
C14_ExitCodes ==
    (rpc = "exited" /\ ~Unhandled) =>
        /\ (LoginRequired /\ ~is_interactive) => exitCode = 1
        /\ Called("login_raised") => exitCode = 1
        /\ (~is_interactive /\ collection # NoCollection) => exitCode = 1
        /\ (is_interactive /\ ~Called("login_raised")) =>
              /\ exitCode = 0
              /\ collection # NoCollection

\* A run without an interactive terminal that needed no login, chose a
\* collection and ended with exit code 1.
C14_Witness ==
    /\ rpc = "exited"
    /\ ~is_interactive
    /\ ~LoginRequired
    /\ collection # NoCollection
    /\ exitCode = 1

\* C15: at every point of a run at most one handle to the store file is
\* open.
C15_OneHandle == Cardinality(handles) <= 1

\* C16: when a run has ended, however it ended, every handle it opened has
\* been closed by a close() call of the run.
C16_HandlesReleased ==
    rpc = "exited" => handles = {}

\* A response the loop cannot use, for a list of length len.
Unusable(len, r) ==
    /\ ~(r.response_is_uuid /\ r.resolves)
    /\ ~(r.response_is_int /\ r.response_int >= 1 /\ r.response_int <= len)

C20_NoLoginNeeded ==
    (Called("needs_login") /\ ~nlResult) =>
        /\ ~Called("logout")
        /\ Flows = <<>>
        /\ rpc \notin {"logout", "check_interactive", "login"}
        /\ \A i \in DOMAIN events :
              (events[i] = "needs_login" /\ i < Len(events)) =>
                  events[i + 1] = "greeting"
        /\ grants = nlSeen.stored

\* A run without an interactive terminal, in a remote shell, that needed no
\* login and went on to the selection of a collection.
C20_Witness ==
    /\ Called("needs_login")
    /\ ~nlResult
    /\ ~is_interactive
    /\ is_ssh
    /\ rpc = "prompt"

\* C21: in a run where needs_login() returned TRUE, the call after
\* needs_login() is logout(), made before the test for an interactive
\* terminal; a run without one has, once past that test, ended with exit
\* code 1 having called logout() and no login flow, and no token is stored.
C21_LogoutBeforeInteractiveCheck ==
    LoginRequired =>
        /\ \A i \in DOMAIN events :
              (events[i] = "needs_login" /\ i < Len(events)) =>
                  events[i + 1] = "logout"
        /\ rpc \in {"check_interactive", "login"} =>
              events[Len(events)] = "logout"
        /\ (~is_interactive /\ rpc \notin {"logout", "check_interactive"}) =>
              /\ rpc = "exited"
              /\ exitCode = 1
              /\ Called("logout")
              /\ Flows = <<>>
              /\ grants = {}

\* A run without an interactive terminal that found tokens stored, removed
\* them and ended with exit code 1.
C21_Witness ==
    /\ LoginRequired
    /\ ~is_interactive
    /\ rpc = "exited"
    /\ exitCode = 1
    /\ nlSeen.stored # {}
    /\ grants = {}
    /\ Called("logout")

====
